---- MODULE Spec2Model ----
(***************************************************************************)
(* A model of the shouyou-plus radical drill: the selection and scoring    *)
(* engine (js/radicals.js, RadicalManager), the persistence collaborator   *)
(* (StorageManager) and the orchestration of the two (js/practice.js,      *)
(* PracticeApp).                                                           *)
(*                                                                         *)
(* Numbers.  Weights, priorities and the random jitter are JavaScript      *)
(* numbers.  They are kept here as exact fixed-point integers in units of  *)
(* 1/Scale: 1.5 is 15 * Scale \div 10, a product with 0.7 is               *)
(* (w * 7) \div 10.  Scale has one decimal digit more than the number of   *)
(* answers a run can record, so every product with 0.7 is exact.         *)
(*                                                                         *)
(* References.  A catalog item is referred to by its id; the JavaScript    *)
(* null of lastRadical / currentRadical is the string NULL.                *)
(***************************************************************************)
EXTENDS Integers, Sequences, FiniteSets, TLC

\* ------------------------------------------------------------------ bounds
\* In a run of draws alone practiceCounter stops at this value.
MaxDraws == 20
\* The catalog is the first n entries of RADICAL_LIST_ALL, 1 <= n <= NumRadicals.
NumRadicals == 2
\* The number of draws, recorded answers and markPracticed calls in one run.
MaxSteps == 2
\* Math.random() of the weighted choice takes the values k / RandomSteps,
\* 0 <= k < RandomSteps.
RandomSteps == 4
\* The number of answers a PracticeApp run accepts.
MaxAnswers == 2
\* The clock does not advance beyond this value.
MaxClock == 2
\* Math.random() of the jitter takes the values k / JitterSteps, 0 <= k < JitterSteps.
JitterSteps == 2

\* --------------------------------------------------------------- numbers
Min(a, b) == IF a < b THEN a ELSE b

Max(a, b) == IF a > b THEN a ELSE b

Scale == 10 ^ (Max(MaxSteps, MaxAnswers) + 1)

NULL == "null"

\* Math.random() in getNextRadical: a value of [0, 1), as the numerator k of
\* k / RandomSteps.
MathRandom == 0 .. (RandomSteps - 1)

\* Math.random() in calculatePriority, as the numerator k of k / JitterSteps.
MathRandomJitter == 0 .. (JitterSteps - 1)

\* ---------------------------------------------------------------- catalog
\* The first keys of RADICAL_MAP, in declaration order, with their radicals
\* (the glyphs are spelled in ASCII).
RADICAL_MAP ==
    << [key |-> "Q", radicals |-> <<"huo", "feng">>],
       [key |-> "W", radicals |-> <<"wang", "tou", "pu">>],
       [key |-> "E", radicals |-> <<"he", "fu">>] >>

RECURSIVE Flatten(_)
\* The for-loops that fill RADICAL_LIST: one entry per radical of every key.
Flatten(map) ==
    IF map = <<>> THEN <<>>
    ELSE LET e == Head(map)
         IN  [i \in 1 .. Len(e.radicals) |->
                 [char |-> e.radicals[i], key |-> e.key,
                  id |-> e.key \o "_" \o e.radicals[i]]]
             \o Flatten(Tail(map))

RADICAL_LIST_ALL == Flatten(RADICAL_MAP)

\* An identifier of no catalog item: a stale id of an older catalog.
StaleId == "K_old"

\* The number of top candidates getNextRadical chooses among.
TopCandidates == 5

VARIABLES
    RADICAL_LIST,       \* the catalog: fixed for the lifetime of the process
    radicalData,        \* RadicalManager.radicalData: id -> ItemState
    lastRadical,        \* RadicalManager.lastRadical: id of the last draw or NULL
    practicedRadicals,  \* RadicalManager.practicedRadicals: the Set, as a set of ids
    practiceCounter,    \* RadicalManager.practiceCounter
    localStorage,       \* the item under STORAGE_KEY: <<>> or <<JSON text>>
    now,                \* the clock new Date() reads
    stats,              \* PracticeApp.stats
    currentRadical,     \* PracticeApp.currentRadical: id or NULL
    isTransitioning,    \* PracticeApp.isTransitioning
    timers,             \* pending setTimeout(showNextRadical, 200) callbacks
    given,              \* caller: the document last handed to save, as handed
    loaded,             \* caller: the document the last load() returned
    backup,             \* caller: <<>> or <<the text exportData() returned>>
    lastOp,             \* history: the last operation and its argument
    steps               \* history: calls counted against MaxSteps or MaxAnswers

EngineVars == << radicalData, lastRadical, practicedRadicals, practiceCounter >>

StorageVars == << localStorage, now >>

AppVars == << stats, currentRadical, isTransitioning, timers >>

CallerVars == << given, loaded, backup >>

vars == << RADICAL_LIST, EngineVars, StorageVars, AppVars, CallerVars, lastOp, steps >>

TOTAL_RADICALS == Len(RADICAL_LIST)

CatalogIds == { RADICAL_LIST[i].id : i \in 1 .. Len(RADICAL_LIST) }

\* The ids a caller passes: those of the catalog and a stale one.
CallerIds == CatalogIds \cup {StaleId}

\* ----------------------------------------------------------- RadicalManager
\* The ItemState every item gets in the constructor and in resetWeights.
DefaultData ==
    [weight |-> Scale, mastery |-> 0, lastPracticed |-> 0,
     wrongCount |-> 0, correctCount |-> 0]

\* new Set(practicedIds): the elements of the array.
NewSet(array) == { array[i] : i \in 1 .. Len(array) }

RECURSIVE ArrayFrom(_, _)
\* Array.from(set): the members of the set as an array.  The model lists them
\* in the order of the sequence `order`; the code's order is insertion order.
ArrayFrom(set, order) ==
    IF order = <<>> THEN <<>>
    ELSE (IF Head(order) \in set THEN << Head(order) >> ELSE <<>>)
         \o ArrayFrom(set, Tail(order))

\* calculatePriority without the 100 of an item that was never practiced.
calculatePriorityNoBonus(data, isPracticed, counter, rnd) ==
    (5 - data.mastery) * 10 * Scale + data.weight * 5
       + (IF data.lastPracticed > 0 /\ counter - data.lastPracticed >= 2 ^ data.mastery
          THEN Min(20, counter - data.lastPracticed - 2 ^ data.mastery) * Scale
          ELSE 0)
       + (rnd * 5 * Scale) \div JitterSteps

\* calculatePriority with 95 for an item that was never practiced.
calculatePriorityWeakBonus(data, isPracticed, counter, rnd) ==
    (IF ~isPracticed THEN 95 * Scale ELSE 0)
       + (5 - data.mastery) * 10 * Scale + data.weight * 5
       + (IF data.lastPracticed > 0 /\ counter - data.lastPracticed >= 2 ^ data.mastery
          THEN Min(20, counter - data.lastPracticed - 2 ^ data.mastery) * Scale
          ELSE 0)
       + (rnd * 5 * Scale) \div JitterSteps

\* calculatePriority without the random term.
calculatePriorityNoJitter(data, isPracticed, counter, rnd) ==
    (IF ~isPracticed THEN 100 * Scale ELSE 0)
       + (5 - data.mastery) * 10 * Scale + data.weight * 5
       + (IF data.lastPracticed > 0 /\ counter - data.lastPracticed >= 2 ^ data.mastery
          THEN Min(20, counter - data.lastPracticed - 2 ^ data.mastery) * Scale
          ELSE 0)

\* calculatePriority, with the value of Math.random() as a parameter.
calculatePriority(data, isPracticed, counter, rnd) ==
    LET unseen == IF ~isPracticed THEN 100 * Scale ELSE 0
        byMastery == (5 - data.mastery) * 10 * Scale
        byWeight == data.weight * 5
        timeSinceLastPractice == counter - data.lastPracticed
        requiredInterval == 2 ^ data.mastery
        interval ==
            IF data.lastPracticed > 0 /\ timeSinceLastPractice >= requiredInterval
            THEN Min(20, timeSinceLastPractice - requiredInterval) * Scale
            ELSE 0
        jitter == (rnd * 5 * Scale) \div JitterSteps
    IN  unseen + byMastery + byWeight + interval + jitter

\* The sort in ascending priority.
SortAscending(priority) ==
    LET n == Len(priority)
        before(j, i) == priority[j] < priority[i]
                        \/ (priority[j] = priority[i] /\ j < i)
        position == [i \in 1 .. n |-> 1 + Cardinality({ j \in 1 .. n : before(j, i) })]
    IN  [k \in 1 .. n |-> CHOOSE i \in 1 .. n : position[i] = k]

\* priorityList.sort((a, b) => b.priority - a.priority): the indices of the
\* list in descending priority; the sort is stable, ties keep list order.
SortDescending(priority) ==
    LET n == Len(priority)
        before(j, i) == priority[j] > priority[i]
                        \/ (priority[j] = priority[i] /\ j < i)
        position == [i \in 1 .. n |-> 1 + Cardinality({ j \in 1 .. n : before(j, i) })]
    IN  [k \in 1 .. n |-> CHOOSE i \in 1 .. n : position[i] = k]

RECURSIVE SumPriority(_, _)
\* topCandidates.reduce((sum, item) => sum + item.priority, 0)
SumPriority(top, priority) ==
    IF top = <<>> THEN 0
    ELSE priority[Head(top)] + SumPriority(Tail(top), priority)

RECURSIVE SelectLoop(_, _, _, _)
\* The for-loop of the weighted choice: the position in top of the first
\* candidate at which the cursor is no longer positive, 0 if there is none.
SelectLoop(top, priority, random, k) ==
    IF k > Len(top) THEN 0
    ELSE LET rest == random - priority[top[k]]
         IN  IF rest <= 0 THEN k ELSE SelectLoop(top, priority, rest, k + 1)

\* AntiRepeat without the test of topCandidates.length: with one candidate,
\* topCandidates[1] is undefined.
AntiRepeatUnguarded(selected, last, topIds) ==
    IF selected = last
    THEN (IF Len(topIds) > 1 THEN topIds[2] ELSE NULL)
    ELSE selected

\* The anti-repeat rule at the end of getNextRadical.
AntiRepeat(selected, last, topIds) ==
    IF selected = last /\ Len(topIds) > 1 THEN topIds[2] ELSE selected

\* getNextRadical for the values jit[i] (one per catalog item, in list order)
\* and rnd / randomSteps of Math.random(), counter already incremented: the
\* priorities computed for the draw and the id of the item returned.
Draw(list, data, practiced, counter, last, jit, rnd, randomSteps) ==
    LET priority == [i \in 1 .. Len(list) |->
                        calculatePriority(data[list[i].id],
                                          list[i].id \in practiced,
                                          counter, jit[i])]
        sorted == SortDescending(priority)
        top == SubSeq(sorted, 1, Min(TopCandidates, Len(sorted)))
        topIds == [k \in 1 .. Len(top) |-> list[top[k]].id]
        totalPriority == SumPriority(top, priority)
        random == (rnd * totalPriority) \div randomSteps
        hit == SelectLoop(top, priority, random, 1)
        selected == IF hit = 0 THEN topIds[1] ELSE topIds[hit]
    IN  [id |-> AntiRepeat(selected, last, topIds), priority |-> priority]

\* The item getNextRadical returns for the values jit[i] and rnd of
\* Math.random().
SelectRadical(list, data, practiced, counter, last, jit, rnd) ==
    Draw(list, data, practiced, counter, last, jit, rnd, RandomSteps).id

\* A draw that does not count.
incrementCounterStays(counter) == counter

\* this.practiceCounter++ at the head of getNextRadical.
incrementCounter(counter) == counter + 1

\* The items getNextRadical can return, over the values of Math.random().
NextRadicals(list, data, practiced, counter, last) ==
    { SelectRadical(list, data, practiced, counter, last, jit, rnd) :
        jit \in [1 .. Len(list) -> MathRandomJitter], rnd \in MathRandom }

\* CorrectData without the cap of mastery and the floor of weight.
CorrectDataUnbounded(data, counter) ==
    [data EXCEPT !.mastery = data.mastery + 1,
                 !.weight = (data.weight * 7) \div 10,
                 !.lastPracticed = counter,
                 !.correctCount = data.correctCount + 1]

\* CorrectData that leaves lastPracticed alone.
CorrectDataNoTime(data, counter) ==
    [data EXCEPT !.mastery = Min(5, data.mastery + 1),
                 !.weight = Max((3 * Scale) \div 10, (data.weight * 7) \div 10),
                 !.correctCount = data.correctCount + 1]

\* handleCorrect's update of one ItemState.
CorrectData(data, counter) ==
    [data EXCEPT !.mastery = Min(5, data.mastery + 1),
                 !.weight = Max((3 * Scale) \div 10, (data.weight * 7) \div 10),
                 !.lastPracticed = counter,
                 !.correctCount = data.correctCount + 1]

\* WrongData that keeps the streak and adds to the weight without the cap.
WrongDataKeepsStreak(data, counter) ==
    [data EXCEPT !.weight = data.weight + (15 * Scale) \div 10,
                 !.lastPracticed = counter,
                 !.wrongCount = data.wrongCount + 1]

\* WrongData that halves the streak.
WrongDataHalvesStreak(data, counter) ==
    [data EXCEPT !.mastery = data.mastery \div 2,
                 !.weight = Min(5 * Scale, data.weight + (15 * Scale) \div 10),
                 !.lastPracticed = counter,
                 !.wrongCount = data.wrongCount + 1]

\* handleWrong's update of one ItemState.
WrongData(data, counter) ==
    [data EXCEPT !.mastery = 0,
                 !.weight = Min(5 * Scale, data.weight + (15 * Scale) \div 10),
                 !.lastPracticed = counter,
                 !.wrongCount = data.wrongCount + 1]

\* handleCorrectData without `if (data)`: an unknown id gets an ItemState.
handleCorrectDataUnguarded(rd, radicalId, counter) ==
    IF radicalId \in DOMAIN rd
    THEN [rd EXCEPT ![radicalId] = CorrectData(rd[radicalId], counter)]
    ELSE (radicalId :> CorrectData(DefaultData, counter)) @@ rd

\* radicalData after handleCorrect(radicalId): `if (data)` skips unknown ids.
handleCorrectData(rd, radicalId, counter) ==
    IF radicalId \in DOMAIN rd
    THEN [rd EXCEPT ![radicalId] = CorrectData(rd[radicalId], counter)]
    ELSE rd

\* radicalData after handleWrong(radicalId): `if (data)` skips unknown ids.
handleWrongData(rd, radicalId, counter) ==
    IF radicalId \in DOMAIN rd
    THEN [rd EXCEPT ![radicalId] = WrongData(rd[radicalId], counter)]
    ELSE rd

\* isAllPracticed()
isAllPracticed == Cardinality(practicedRadicals) >= TOTAL_RADICALS

RECURSIVE LearningStatsNoElse(_, _, _, _)
\* The forEach of getLearningStats with the three tests independent of each
\* other: an unseen item is also counted by its mastery.
LearningStatsNoElse(list, rd, practiced, counts) ==
    IF list = <<>> THEN counts
    ELSE LET data == rd[Head(list).id]
             isPracticed == Head(list).id \in practiced
             one(test) == IF test THEN 1 ELSE 0
         IN  LearningStatsNoElse(Tail(list), rd, practiced,
                [counts EXCEPT
                    !.newCount = @ + one(~isPracticed),
                    !.masteredCount = @ + one(data.mastery >= 3),
                    !.learningCount = @ + one(data.mastery < 3),
                    !.difficultCount = @ + one(data.wrongCount >= 3)])

RECURSIVE LearningStats(_, _, _, _)
\* The forEach of getLearningStats over the rest of RADICAL_LIST.
LearningStats(list, rd, practiced, counts) ==
    IF list = <<>> THEN counts
    ELSE LET data == rd[Head(list).id]
             isPracticed == Head(list).id \in practiced
             counted ==
                IF ~isPracticed THEN [counts EXCEPT !.newCount = @ + 1]
                ELSE IF data.mastery >= 3 THEN [counts EXCEPT !.masteredCount = @ + 1]
                ELSE [counts EXCEPT !.learningCount = @ + 1]
             next ==
                IF data.wrongCount >= 3
                THEN [counted EXCEPT !.difficultCount = @ + 1]
                ELSE counted
         IN  LearningStats(Tail(list), rd, practiced, next)

\* getLearningStats()
getLearningStats ==
    LearningStats(RADICAL_LIST, radicalData, practicedRadicals,
                  [masteredCount |-> 0, learningCount |-> 0, newCount |-> 0,
                   difficultCount |-> 0, totalCount |-> TOTAL_RADICALS])

\* restoreWeights' spread { ...this.radicalData[id], ...data }.
SpreadData(current, data) ==
    [f \in DOMAIN current \cup DOMAIN data |->
        IF f \in DOMAIN data THEN data[f] ELSE current[f]]

\* radicalData is a plain object ({}): a name it has no key for still reads
\* as the member of Object.prototype with that name, a function, when there
\* is one.
ObjectPrototypeNames == { "constructor", "toString", "valueOf" }

RECURSIVE RestoreNew(_, _)
\* The new-format loop of restoreWeights over Object.entries(savedWeights).
\* `if (this.radicalData[id])` is true of a key and of an inherited name; for
\* an inherited name the spread of the function copies nothing, and the
\* assignment makes the name a key of radicalData.
RestoreNew(rd, entries) ==
    IF entries = <<>> THEN rd
    ELSE LET id == Head(entries)[1]
             data == Head(entries)[2].obj
             next == IF id \in DOMAIN rd
                     THEN [rd EXCEPT ![id] = SpreadData(rd[id], data)]
                     ELSE IF id \in ObjectPrototypeNames
                     THEN [k \in DOMAIN rd \cup {id} |->
                             IF k = id THEN SpreadData(<<>>, data) ELSE rd[k]]
                     ELSE rd
         IN  RestoreNew(next, Tail(entries))

\* The legacy loop taken for the new-format loop: every stored object is
\* read as a bare weight.
RestoreLegacyAsItem(rd, entries) ==
    [id \in DOMAIN rd |->
        IF \E i \in 1 .. Len(entries) : entries[i][1] = id
        THEN [DefaultData EXCEPT !.weight = Scale, !.mastery = 1]
        ELSE rd[id]]

RECURSIVE RestoreLegacy(_, _)
\* The legacy loop of restoreWeights: the stored value becomes the weight.
RestoreLegacy(rd, entries) ==
    IF entries = <<>> THEN rd
    ELSE LET id == Head(entries)[1]
             weight == Head(entries)[2].num
             next == IF id \in DOMAIN rd
                     THEN [rd EXCEPT ![id].weight = weight]
                     ELSE rd
         IN  RestoreLegacy(next, Tail(entries))

\* radicalData after restoreWeights(savedWeights).  A weights object is the
\* sequence of its entries <<id, value>> in key order; a value is
\* [type |-> "number", num |-> n] or [type |-> "object", obj |-> fields].
restoreWeightsData(rd, savedWeights) ==
    IF Len(savedWeights) > 0 /\ savedWeights[1][2].type = "object"
    THEN RestoreNew(rd, savedWeights)
    ELSE RestoreLegacy(rd, savedWeights)

\* getWeightsData(): a copy of every ItemState, in the key order of radicalData.
getWeightsData(list, rd) ==
    [i \in 1 .. Len(list) |-> << list[i].id, [type |-> "object", obj |-> rd[list[i].id]] >>]

\* ----------------------------------------------------------- StorageManager
StatsFields ==
    << "totalAttempts", "correctCount", "wrongCount", "currentCombo", "maxCombo",
       "practicedCount" >>

ItemFields == << "weight", "mastery", "lastPracticed", "wrongCount", "correctCount" >>

DocFields == << "stats", "weights", "practicedRadicals", "lastPracticeTime", "version" >>

\* The stats object of the PracticeApp constructor and of getDefaultData.
DefaultStats ==
    [totalAttempts |-> 0, correctCount |-> 0, wrongCount |-> 0,
     currentCombo |-> 0, maxCombo |-> 0, practicedCount |-> 0]

getDefaultData ==
    [stats |-> DefaultStats, weights |-> <<>>, practicedRadicals |-> <<>>,
     lastPracticeTime |-> NULL, version |-> 1]

\* new Date().toISOString() at clock value t.
toISOString(t) == "T" \o ToString(t)

\* JSON text is kept as its syntax tree: a number, a string, null, an array
\* of texts, or an object, the sequence of its members <<name, text>>.
NumberText(n) == [t |-> "number", n |-> n]

\* The text of an object whose values are numbers; absent keys are left out.
ObjectText(object, order) ==
    LET names == SelectSeq(order, LAMBDA f : f \in DOMAIN object)
    IN  [t |-> "object",
         members |-> [i \in 1 .. Len(names) |->
                         << names[i], NumberText(object[names[i]]) >>]]

\* ParseObject that loses the values: every member parses to 0.
ParseObjectZero(text) ==
    [f \in { text.members[i][1] : i \in 1 .. Len(text.members) } |-> 0]

\* The object a text of number members parses to (a repeated name: the last).
ParseObject(text) ==
    LET m == text.members
        last(f) == CHOOSE i \in 1 .. Len(m) :
                      m[i][1] = f /\ \A j \in (i + 1) .. Len(m) : m[j][1] # f
    IN  [f \in { m[i][1] : i \in 1 .. Len(m) } |-> m[last(f)][2].n]

WeightsText(weights) ==
    [t |-> "object",
     members |-> [i \in 1 .. Len(weights) |->
                     << weights[i][1],
                        IF weights[i][2].type = "number"
                        THEN NumberText(weights[i][2].num)
                        ELSE ObjectText(weights[i][2].obj, ItemFields) >>]]

ParseWeights(text) ==
    [i \in 1 .. Len(text.members) |->
        << text.members[i][1],
           IF text.members[i][2].t = "number"
           THEN [type |-> "number", num |-> text.members[i][2].n]
           ELSE [type |-> "object", obj |-> ParseObject(text.members[i][2])] >>]

\* The text of one top-level field of the document.
FieldText(name, value) ==
    CASE name = "stats" -> ObjectText(value, StatsFields)
      [] name = "weights" -> WeightsText(value)
      [] name = "practicedRadicals" ->
            [t |-> "array",
             items |-> [i \in 1 .. Len(value) |-> [t |-> "string", s |-> value[i]]]]
      [] name = "lastPracticeTime" ->
            IF value = NULL THEN [t |-> "null"] ELSE [t |-> "string", s |-> value]
      [] name = "version" -> NumberText(value)

ParseField(name, text) ==
    CASE name = "stats" -> ParseObject(text)
      [] name = "weights" -> ParseWeights(text)
      [] name = "practicedRadicals" -> [i \in 1 .. Len(text.items) |-> text.items[i].s]
      [] name = "lastPracticeTime" -> IF text.t = "null" THEN NULL ELSE text.s
      [] name = "version" -> text.n

\* JSON.stringify(data) of a document.
JSONstringify(data) ==
    LET junk(f) == "junk" \in DOMAIN data /\ f \in DOMAIN data.junk
        names == SelectSeq(DocFields, LAMBDA f : f \in DOMAIN data \/ junk(f))
    IN  [t |-> "object",
         members |-> [i \in 1 .. Len(names) |->
                         << names[i],
                            IF junk(names[i]) THEN data.junk[names[i]]
                            ELSE FieldText(names[i], data[names[i]]) >>]]

\* The text is a value of the type the document gives the field.
WellTyped(name, text) ==
    LET numbers(object) ==
           \A i \in 1 .. Len(object.members) : object.members[i][2].t = "number"
    IN  CASE name = "stats" -> text.t = "object" /\ numbers(text)
          [] name = "weights" ->
                /\ text.t = "object"
                /\ \A i \in 1 .. Len(text.members) :
                      \/ text.members[i][2].t = "number"
                      \/ (text.members[i][2].t = "object" /\ numbers(text.members[i][2]))
          [] name = "practicedRadicals" ->
                /\ text.t = "array"
                /\ \A i \in 1 .. Len(text.items) : text.items[i].t = "string"
          [] name = "lastPracticeTime" -> text.t \in { "null", "string" }
          [] name = "version" -> text.t = "number"

\* JSON.parse(stored) of the text of an object.  A member whose value is of
\* the field's type is the field of the record; a value of another type is
\* kept, as its text, under the member's name in the field "junk".
JSONparse(text) ==
    LET m == text.members
        at(f) == CHOOSE i \in 1 .. Len(m) : m[i][1] = f
        names == { m[i][1] : i \in 1 .. Len(m) }
        good == { f \in names : WellTyped(f, m[at(f)][2]) }
        bad == names \ good
    IN  [f \in good \cup (IF bad = {} THEN {} ELSE { "junk" }) |->
            IF f = "junk" THEN [g \in bad |-> m[at(g)][2]]
            ELSE ParseField(f, m[at(f)][2])]

\* data has the field f, with a value of another type than the field's.
HasJunk(data, f) == "junk" \in DOMAIN data /\ f \in DOMAIN data.junk

\* A value is truthy unless it is null, 0 or "".
Truthy(value) ==
    CASE value.t = "null" -> FALSE
      [] value.t = "number" -> value.n # 0
      [] value.t = "string" -> value.s # ""
      [] value.t \in { "array", "object" } -> TRUE

\* { ...current, ...value } for a value that is not an object of numbers:
\* null and a number have no own properties, an array of numbers has its
\* indices.
SpreadValue(current, value) ==
    CASE value.t \in { "null", "number" } -> current
      [] value.t = "array" ->
            LET index(f) == CHOOSE i \in 1 .. Len(value.items) : ToString(i - 1) = f
            IN  [f \in DOMAIN current \cup
                        { ToString(i - 1) : i \in 1 .. Len(value.items) } |->
                    IF f \in DOMAIN current THEN current[f]
                    ELSE value.items[index(f)].n]

\* mergeWithDefaults(data): `a || b` takes b when a is undefined, null, 0 or "".
\* A truthy value of another type than the field's is taken as it is: the
\* result keeps it in "junk".
mergeWithDefaults(data) ==
    LET defaults == getDefaultData
        has(f) == f \in DOMAIN data
        keeps == { f \in { "weights", "practicedRadicals", "lastPracticeTime", "version" } :
                     HasJunk(data, f) /\ Truthy(data.junk[f]) }
        merged ==
           [stats |-> IF has("stats") THEN SpreadData(defaults.stats, data.stats)
                      ELSE IF HasJunk(data, "stats")
                           THEN SpreadValue(defaults.stats, data.junk.stats)
                           ELSE defaults.stats,
            weights |-> IF has("weights") THEN data.weights ELSE defaults.weights,
            practicedRadicals |-> IF has("practicedRadicals") THEN data.practicedRadicals
                                  ELSE defaults.practicedRadicals,
            lastPracticeTime |-> IF has("lastPracticeTime") /\ data.lastPracticeTime # NULL
                                 THEN data.lastPracticeTime
                                 ELSE defaults.lastPracticeTime,
            version |-> IF has("version") /\ data.version # 0 THEN data.version
                        ELSE defaults.version]
    IN  IF keeps = {} THEN merged
        ELSE [f \in (DOMAIN merged \ keeps) \cup { "junk" } |->
                 IF f = "junk" THEN [g \in keeps |-> data.junk[g]] ELSE merged[f]]

\* load(): localStorage holds <<>> (no item) or <<text>>.  An empty item is
\* falsy; JSON.parse throws on a text that is no JSON, and mergeWithDefaults on
\* null: both are caught; a number, a string and an array have no property
\* named like a field.
load(storage) ==
    IF storage = <<>> THEN getDefaultData
    ELSE CASE storage[1].t = "object" -> mergeWithDefaults(JSONparse(storage[1]))
           [] storage[1].t \in { "empty", "invalid", "null" } -> getDefaultData
           [] storage[1].t \in { "number", "string", "array" } -> mergeWithDefaults(<<>>)

\* The item save(data) stores at clock value t when setItem does not throw.
save(data, t) ==
    << JSONstringify([data EXCEPT !.lastPracticeTime = toISOString(t)]) >>

\* saveState that does not copy the state into the document.
saveStateStale(storage, state) == load(storage)

\* The document saveState(state) passes to save: the stored one with stats,
\* weights and practicedRadicals set; state.practiceCounter is not read.
saveState(storage, state) ==
    LET data == load(storage)
        sets == { "stats", "weights", "practicedRadicals" }
        junk == IF "junk" \in DOMAIN data THEN DOMAIN data.junk \ sets ELSE {}
    IN  [f \in ((DOMAIN data \ { "junk" }) \cup sets)
                \cup (IF junk = {} THEN {} ELSE { "junk" }) |->
            IF f = "junk" THEN [g \in junk |-> data.junk[g]]
            ELSE IF f \in sets THEN state[f]
            ELSE data[f]]

\* ------------------------------------------------------------ engine steps
\* The state the RadicalManager constructor leaves, for a catalog list.
FreshEngine(list) ==
    /\ RADICAL_LIST = list
    /\ radicalData = [id \in { list[i].id : i \in 1 .. Len(list) } |-> DefaultData]
    /\ lastRadical = NULL
    /\ practicedRadicals = {}
    /\ practiceCounter = 0

\* The fields of a PracticeApp before init() and an empty caller.
Unloaded ==
    /\ stats = DefaultStats
    /\ currentRadical = NULL
    /\ isTransitioning = FALSE
    /\ timers = 0
    /\ given = getDefaultData
    /\ loaded = getDefaultData
    /\ backup = <<>>
    /\ lastOp = [op |-> "constructor", id |-> NULL]
    /\ steps = 0

Catalogs == { SubSeq(RADICAL_LIST_ALL, 1, n) : n \in 1 .. NumRadicals }

\* Stored weights of earlier sessions: none, a legacy flat map, a map of
\* ItemStates; both name a stale id.
LegacyWeights ==
    << << RADICAL_LIST_ALL[1].id, [type |-> "number", num |-> 3 * Scale] >>,
       << StaleId, [type |-> "number", num |-> 2 * Scale] >> >>

NewWeights ==
    << << StaleId, [type |-> "object", obj |-> DefaultData] >>,
       << RADICAL_LIST_ALL[1].id,
          [type |-> "object",
           obj |-> [weight |-> (3 * Scale) \div 10, mastery |-> 5, lastPracticed |-> 6,
                    wrongCount |-> 0, correctCount |-> 6]] >>,
       << RADICAL_LIST_ALL[2].id,
          [type |-> "object",
           obj |-> [weight |-> 5 * Scale, mastery |-> 0, lastPracticed |-> 1,
                    wrongCount |-> 3, correctCount |-> 0]] >> >>

SavedWeights == { <<>>, LegacyWeights, NewWeights }

\* Stored weights that name a member of Object.prototype, in either format.
InheritedLegacyWeights ==
    << << "constructor", [type |-> "number", num |-> 2 * Scale] >>,
       << RADICAL_LIST_ALL[1].id, [type |-> "number", num |-> 3 * Scale] >> >>

InheritedNewWeights ==
    << << "constructor", [type |-> "object", obj |-> DefaultData] >>,
       << RADICAL_LIST_ALL[1].id,
          [type |-> "object", obj |-> [weight |-> 2 * Scale, mastery |-> 2]] >> >>

RestoredWeights == SavedWeights \cup { InheritedLegacyWeights, InheritedNewWeights }

\* Stored arrays of practiced ids: none, one id, one id and a stale id.
SavedPracticed ==
    { <<>>, << RADICAL_LIST_ALL[1].id >>, << RADICAL_LIST_ALL[1].id, StaleId >> }

Init ==
    /\ \E list \in Catalogs : FreshEngine(list)
    /\ localStorage = <<>>
    /\ now = 1
    /\ Unloaded

getNextRadical ==
    /\ steps < MaxSteps
    /\ steps' = steps + 1
    /\ practiceCounter' = incrementCounter(practiceCounter)
    /\ lastRadical' \in NextRadicals(RADICAL_LIST, radicalData, practicedRadicals,
                                         practiceCounter', lastRadical)
    /\ lastOp' = [op |-> "getNextRadical", id |-> lastRadical']
    /\ UNCHANGED << RADICAL_LIST, radicalData, practicedRadicals,
                    StorageVars, AppVars, CallerVars >>

handleCorrect(radicalId) ==
    /\ radicalId \in CatalogIds => steps < MaxSteps
    /\ radicalData' = handleCorrectData(radicalData, radicalId, practiceCounter)
    /\ steps' = IF radicalId \in CatalogIds THEN steps + 1 ELSE steps
    /\ lastOp' = [op |-> "handleCorrect", id |-> radicalId]
    /\ UNCHANGED << RADICAL_LIST, lastRadical, practicedRadicals, practiceCounter,
                    StorageVars, AppVars, CallerVars >>

handleWrong(radicalId) ==
    /\ radicalId \in CatalogIds => steps < MaxSteps
    /\ radicalData' = handleWrongData(radicalData, radicalId, practiceCounter)
    /\ steps' = IF radicalId \in CatalogIds THEN steps + 1 ELSE steps
    /\ lastOp' = [op |-> "handleWrong", id |-> radicalId]
    /\ UNCHANGED << RADICAL_LIST, lastRadical, practicedRadicals, practiceCounter,
                    StorageVars, AppVars, CallerVars >>

\* markPracticed that forgets the id.
markPracticedSetForgets(set, radicalId) == set

\* practicedRadicals after markPracticed(radicalId).
markPracticedSet(set, radicalId) == set \cup {radicalId}

markPracticed(radicalId) ==
    /\ steps < MaxSteps
    /\ steps' = steps + 1
    /\ practicedRadicals' = markPracticedSet(practicedRadicals, radicalId)
    /\ lastOp' = [op |-> "markPracticed", id |-> radicalId]
    /\ UNCHANGED << RADICAL_LIST, radicalData, lastRadical, practiceCounter,
                    StorageVars, AppVars, CallerVars >>

\* The engine calls of PracticeApp.handleCorrect() for the current item:
\* markPracticed(radicalId), then decreaseWeight(radicalId).
PracticeApp_handleCorrect(radicalId) ==
    /\ steps < MaxSteps
    /\ steps' = steps + 1
    /\ practicedRadicals' = markPracticedSet(practicedRadicals, radicalId)
    /\ radicalData' = handleCorrectData(radicalData, radicalId, practiceCounter)
    /\ lastOp' = [op |-> "PracticeApp.handleCorrect", id |-> radicalId]
    /\ UNCHANGED << RADICAL_LIST, lastRadical, practiceCounter,
                    StorageVars, AppVars, CallerVars >>

\* resetWeightsData that resets the weight alone.
resetWeightsDataWeightOnly(list, rd) ==
    [id \in DOMAIN rd |-> [rd[id] EXCEPT !.weight = Scale]]

\* resetWeightsData that keeps the counts of answers.
resetWeightsDataKeepsCounts(list, rd) ==
    [id \in DOMAIN rd |-> [rd[id] EXCEPT !.weight = Scale, !.mastery = 0,
                                         !.lastPracticed = 0]]

\* radicalData after resetWeights().
resetWeightsData(list, rd) ==
    LET ids == { list[i].id : i \in 1 .. Len(list) }
    IN  [id \in DOMAIN rd \cup ids |-> IF id \in ids THEN DefaultData ELSE rd[id]]

resetWeights ==
    /\ radicalData' = resetWeightsData(RADICAL_LIST, radicalData)
    /\ practicedRadicals' = {}
    /\ lastRadical' = NULL
    /\ practiceCounter' = 0
    /\ lastOp' = [op |-> "resetWeights", id |-> NULL]
    /\ UNCHANGED << RADICAL_LIST, steps, StorageVars, AppVars, CallerVars >>

\* restoreWeights and restorePracticed have one caller, restoreFromStorage in
\* init(): they act once, in this order, on the engine the constructor has
\* just built.
restoreWeights(savedWeights) ==
    /\ lastOp.op = "constructor"
    /\ radicalData' = restoreWeightsData(radicalData, savedWeights)
    /\ given' = [getDefaultData EXCEPT !.weights = savedWeights]
    /\ lastOp' = [op |-> "restoreWeights", id |-> NULL]
    /\ UNCHANGED << RADICAL_LIST, lastRadical, practicedRadicals, practiceCounter,
                    steps, StorageVars, AppVars, loaded, backup >>

restorePracticed(practicedIds) ==
    /\ lastOp.op \in { "constructor", "restoreWeights" }
    /\ practicedRadicals' = NewSet(practicedIds)
    /\ lastOp' = [op |-> "restorePracticed", id |-> NULL]
    /\ UNCHANGED << RADICAL_LIST, radicalData, lastRadical, practiceCounter, steps,
                    StorageVars, AppVars, CallerVars >>

Next ==
    \/ getNextRadical
    \/ \E id \in CallerIds : handleCorrect(id)
    \/ \E id \in CallerIds : handleWrong(id)
    \/ \E id \in CatalogIds : markPracticed(id)
    \/ \E id \in CatalogIds : PracticeApp_handleCorrect(id)
    \/ resetWeights
    \/ \E savedWeights \in RestoredWeights : restoreWeights(savedWeights)
    \/ \E practicedIds \in SavedPracticed : restorePracticed(practicedIds)

Spec == Init /\ [][Next]_vars

\* ----------------------------------------------------------- storage steps
\* Well-formed documents: the stats of a session, stored weights and practiced
\* ids, a time stamp before the clock's first value or none, a schema version.
SessionStats ==
    [totalAttempts |-> 9, correctCount |-> 6, wrongCount |-> 3,
     currentCombo |-> 0, maxCombo |-> 6, practicedCount |-> 2]

WellFormedDocuments ==
    { [stats |-> s, weights |-> w, practicedRadicals |-> p, lastPracticeTime |-> l,
       version |-> v] :
        s \in { DefaultStats, SessionStats }, w \in SavedWeights, p \in SavedPracticed,
        l \in { NULL, toISOString(0) }, v \in { 1, 2 } }

InitStorage ==
    /\ FreshEngine(SubSeq(RADICAL_LIST_ALL, 1, 1))
    /\ localStorage = <<>>
    /\ now = 1
    /\ stats = DefaultStats
    /\ currentRadical = NULL
    /\ isTransitioning = FALSE
    /\ timers = 0
    /\ given \in WellFormedDocuments
    /\ loaded = getDefaultData
    /\ backup = <<>>
    /\ lastOp = [op |-> "constructor", id |-> NULL]
    /\ steps = 0

\* The clock advances.
Tick ==
    /\ now < MaxClock
    /\ now' = now + 1
    /\ UNCHANGED << RADICAL_LIST, EngineVars, localStorage, AppVars, CallerVars,
                    lastOp, steps >>

\* storageManager.save(x) of the caller's document; setItem may throw.
StorageSave ==
    /\ \E ok \in BOOLEAN :
          /\ localStorage' = IF ok THEN save(given, now) ELSE localStorage
          /\ lastOp' = [op |-> IF ok THEN "save" ELSE "saveFailed", id |-> NULL,
                        at |-> now]
    /\ UNCHANGED << RADICAL_LIST, EngineVars, now, AppVars, CallerVars, steps >>

\* storageManager.load(); the history keeps the write it directly follows.
StorageLoad ==
    /\ loaded' = load(localStorage)
    /\ lastOp' = IF lastOp.op \in { "save", "importData" }
                 THEN [op |-> "load", id |-> lastOp.op, at |-> lastOp.at]
                 ELSE [op |-> "load", id |-> NULL]
    /\ UNCHANGED << RADICAL_LIST, EngineVars, StorageVars, AppVars, given, backup, steps >>

\* exportData(): the caller keeps the text, and the history the document.
exportData ==
    /\ backup' = << [text |-> JSONstringify(load(localStorage)),
                     doc |-> load(localStorage)] >>
    /\ lastOp' = [op |-> "exportData", id |-> NULL]
    /\ UNCHANGED << RADICAL_LIST, EngineVars, StorageVars, AppVars, given, loaded, steps >>

\* importData(jsonString) of the text kept; setItem may throw.
importData ==
    /\ backup # <<>>
    /\ \E ok \in BOOLEAN :
          /\ localStorage' =
                IF ok THEN save(mergeWithDefaults(JSONparse(backup[1].text)), now)
                ELSE localStorage
          /\ lastOp' = [op |-> IF ok THEN "importData" ELSE "importFailed",
                        id |-> NULL, at |-> now]
    /\ UNCHANGED << RADICAL_LIST, EngineVars, now, AppVars, CallerVars, steps >>

\* clear(): removeItem.
clear ==
    /\ localStorage' = <<>>
    /\ lastOp' = [op |-> "clear", id |-> NULL]
    /\ UNCHANGED << RADICAL_LIST, EngineVars, now, AppVars, CallerVars, steps >>

NextStorage ==
    \/ Tick
    \/ StorageSave
    \/ StorageLoad
    \/ exportData
    \/ importData
    \/ clear

SpecStorage == InitStorage /\ [][NextStorage]_vars

\* --------------------------------------------------------------- app steps
\* The keys a user types.
InputKeys == { RADICAL_MAP[i].key : i \in 1 .. Len(RADICAL_MAP) }

\* radical.key of the catalog item with this id.
KeyOf(list, id) == list[CHOOSE i \in 1 .. Len(list) : list[i].id = id].key

\* The order in which the model lists the members of the seen set.
IdOrder == [i \in 1 .. Len(RADICAL_LIST_ALL) |-> RADICAL_LIST_ALL[i].id] \o << StaleId >>

\* this.stats after the counting of checkAnswer and handleCorrect.
CorrectStats(st, practicedCount) ==
    [st EXCEPT !.totalAttempts = st.totalAttempts + 1,
               !.correctCount = st.correctCount + 1,
               !.currentCombo = st.currentCombo + 1,
               !.maxCombo = Max(st.maxCombo, st.currentCombo + 1),
               !.practicedCount = practicedCount]

\* WrongStats that keeps the combo.
WrongStatsKeepsCombo(st) ==
    [st EXCEPT !.totalAttempts = st.totalAttempts + 1,
               !.wrongCount = st.wrongCount + 1]

\* this.stats after the counting of checkAnswer and handleWrong.
WrongStats(st) ==
    [st EXCEPT !.totalAttempts = st.totalAttempts + 1,
               !.wrongCount = st.wrongCount + 1,
               !.currentCombo = 0]

\* The item saveToStorage() leaves in localStorage when setItem does not throw.
saveToStorage(storage, st, list, rd, practiced, counter, t) ==
    save(saveState(storage,
                   [stats |-> st,
                    weights |-> getWeightsData(list, rd),
                    practicedRadicals |-> ArrayFrom(practiced, IdOrder),
                    practiceCounter |-> counter]),
         t)

\* radicalData after restoreWeights(value) for a value that is not a weights
\* object: a number and a string are not of typeof 'object'; the keys of an
\* array of numbers are its indices, read as a legacy map.
restoreWeightsValue(rd, value) ==
    IF value.t = "array"
    THEN RestoreLegacy(rd, [i \in 1 .. Len(value.items) |->
                               << ToString(i - 1),
                                  [type |-> "number", num |-> value.items[i].n] >>])
    ELSE rd

\* practicedRadicals after restorePracticed(value) for a value that is not an
\* array of strings: any array becomes the set of its members (a number is
\* kept here by its text), anything else is not taken.
restorePracticedValue(practiced, value) ==
    IF value.t = "array"
    THEN { IF value.items[i].t = "number" THEN ToString(value.items[i].n)
           ELSE value.items[i].s : i \in 1 .. Len(value.items) }
    ELSE practiced

\* The stats and the engine restoreFromStorage() leaves.
restoreFromStorage(storage, st, rd, practiced, counter) ==
    LET savedData == load(storage)
    IN  [stats |-> SpreadData(st, savedData.stats),
         radicalData |->
            IF HasJunk(savedData, "weights")
            THEN restoreWeightsValue(rd, savedData.junk.weights)
            ELSE restoreWeightsData(rd, savedData.weights),
         practicedRadicals |->
            IF HasJunk(savedData, "practicedRadicals")
            THEN restorePracticedValue(practiced, savedData.junk.practicedRadicals)
            ELSE NewSet(savedData.practicedRadicals),
         practiceCounter |->
            IF "practiceCounter" \in DOMAIN savedData /\ savedData.practiceCounter # 0
            THEN savedData.practiceCounter
            ELSE counter]

\* Documents earlier sessions stored: one with a legacy weight map, one of an
\* older catalog with a stale id.
StoredDocuments ==
    { [stats |-> [DefaultStats EXCEPT !.totalAttempts = 1, !.correctCount = 1,
                                      !.currentCombo = 1, !.maxCombo = 1,
                                      !.practicedCount = 1],
       weights |-> LegacyWeights,
       practicedRadicals |-> << RADICAL_LIST_ALL[1].id >>,
       lastPracticeTime |-> NULL, version |-> 1],
      [stats |-> SessionStats,
       weights |-> NewWeights,
       practicedRadicals |-> << RADICAL_LIST_ALL[1].id, StaleId >>,
       lastPracticeTime |-> NULL, version |-> 1] }

InitApp ==
    /\ FreshEngine(SubSeq(RADICAL_LIST_ALL, 1, NumRadicals))
    /\ localStorage \in { <<>> } \cup { save(d, 0) : d \in StoredDocuments }
    /\ now = 1
    /\ Unloaded

\* new PracticeApp(): restoreFromStorage() and the first showNextRadical().
PracticeAppInit ==
    /\ currentRadical = NULL
    /\ LET r == restoreFromStorage(localStorage, stats, radicalData,
                                   practicedRadicals, practiceCounter)
       IN  /\ stats' = r.stats
           /\ radicalData' = r.radicalData
           /\ practicedRadicals' = r.practicedRadicals
           /\ practiceCounter' = r.practiceCounter + 1
           /\ lastRadical' \in NextRadicals(RADICAL_LIST, r.radicalData,
                                              r.practicedRadicals,
                                              r.practiceCounter + 1, lastRadical)
    /\ currentRadical' = lastRadical'
    /\ isTransitioning' = FALSE
    /\ lastOp' = [op |-> "init", id |-> NULL]
    /\ UNCHANGED << RADICAL_LIST, StorageVars, timers, CallerVars, steps >>

\* AcceptsInput without the test of isTransitioning.
AcceptsInputNoGuard(current, transitioning) == current # NULL

\* The early returns of checkAnswer: an input is taken when there is a
\* current item and no transition is under way.
AcceptsInput(current, transitioning) == current # NULL /\ ~transitioning

\* checkAnswer(input) while there is no item or a transition is under way.
checkAnswerIgnored(input) ==
    /\ ~AcceptsInput(currentRadical, isTransitioning)
    /\ lastOp' = [op |-> "checkAnswer", id |-> "ignored"]
    /\ UNCHANGED << RADICAL_LIST, EngineVars, StorageVars, AppVars, CallerVars, steps >>

\* checkAnswer(input) with the key of the current item: handleCorrect(),
\* then saveToStorage(); setItem may throw.
checkAnswerCorrect(input) ==
    /\ AcceptsInput(currentRadical, isTransitioning)
    /\ input = KeyOf(RADICAL_LIST, currentRadical)
    /\ steps < MaxAnswers
    /\ steps' = steps + 1
    /\ practicedRadicals' = markPracticedSet(practicedRadicals, currentRadical)
    /\ stats' = CorrectStats(stats, Cardinality(practicedRadicals'))
    /\ radicalData' = handleCorrectData(radicalData, currentRadical, practiceCounter)
    /\ isTransitioning' = TRUE
    /\ timers' = timers + 1
    /\ \E ok \in BOOLEAN :
          /\ localStorage' =
                IF ok THEN saveToStorage(localStorage, stats', RADICAL_LIST, radicalData',
                                         practicedRadicals', practiceCounter, now)
                ELSE localStorage
          /\ lastOp' = [op |-> "checkAnswer", id |-> "correct", saved |-> ok]
    /\ UNCHANGED << RADICAL_LIST, lastRadical, practiceCounter, now, currentRadical,
                    CallerVars >>

\* checkAnswer(input) with another key: handleWrong(input), then
\* saveToStorage(); setItem may throw.
checkAnswerWrong(input) ==
    /\ AcceptsInput(currentRadical, isTransitioning)
    /\ input # KeyOf(RADICAL_LIST, currentRadical)
    /\ steps < MaxAnswers
    /\ steps' = steps + 1
    /\ stats' = WrongStats(stats)
    /\ radicalData' = handleWrongData(radicalData, currentRadical, practiceCounter)
    /\ \E ok \in BOOLEAN :
          /\ localStorage' =
                IF ok THEN saveToStorage(localStorage, stats', RADICAL_LIST, radicalData',
                                         practicedRadicals, practiceCounter, now)
                ELSE localStorage
          /\ lastOp' = [op |-> "checkAnswer", id |-> "wrong", saved |-> ok]
    /\ UNCHANGED << RADICAL_LIST, lastRadical, practicedRadicals, practiceCounter, now,
                    currentRadical, isTransitioning, timers, CallerVars >>

\* The callback of setTimeout(() => this.showNextRadical(), 200).
showNextRadicalTimer ==
    /\ timers > 0
    /\ timers' = timers - 1
    /\ practiceCounter' = practiceCounter + 1
    /\ lastRadical' \in NextRadicals(RADICAL_LIST, radicalData, practicedRadicals,
                                       practiceCounter + 1, lastRadical)
    /\ currentRadical' = lastRadical'
    /\ isTransitioning' = FALSE
    /\ lastOp' = [op |-> "showNextRadical", id |-> NULL]
    /\ UNCHANGED << RADICAL_LIST, radicalData, practicedRadicals, StorageVars, stats,
                    CallerVars, steps >>

\* What showNextRadical() can draw from an engine just reset, by catalog size:
\* every item at its defaults, nothing practiced, counter 1, no previous item.
ResetDraws ==
    [n \in 1 .. NumRadicals |->
        LET list == SubSeq(RADICAL_LIST_ALL, 1, n)
        IN  NextRadicals(list, [id \in { list[i].id : i \in 1 .. n } |-> DefaultData],
                         {}, 1, NULL)]

\* handleReset() with the confirm() accepted: the stats and the engine are
\* reset, storageManager.reset() saves the defaults (setItem may throw), and
\* showNextRadical() draws.
handleReset ==
    /\ currentRadical # NULL
    /\ stats' = DefaultStats
    /\ radicalData' = resetWeightsData(RADICAL_LIST, radicalData)
    /\ practicedRadicals' = {}
    /\ practiceCounter' = 1
    /\ \E ok \in BOOLEAN :
          /\ localStorage' = IF ok THEN save(getDefaultData, now) ELSE localStorage
          /\ lastOp' = [op |-> "handleReset", id |-> NULL, saved |-> ok]
    /\ lastRadical' \in ResetDraws[Len(RADICAL_LIST)]
    /\ currentRadical' = lastRadical'
    /\ isTransitioning' = FALSE
    /\ UNCHANGED << RADICAL_LIST, now, timers, CallerVars, steps >>

\* visibilitychange with the document hidden: saveToStorage(); setItem may throw.
pageHidden ==
    /\ currentRadical # NULL
    /\ \E ok \in BOOLEAN :
          /\ localStorage' =
                IF ok THEN saveToStorage(localStorage, stats, RADICAL_LIST, radicalData,
                                         practicedRadicals, practiceCounter, now)
                ELSE localStorage
          /\ lastOp' = [op |-> "pageHidden", id |-> NULL, saved |-> ok]
    /\ UNCHANGED << RADICAL_LIST, EngineVars, now, AppVars, CallerVars, steps >>

\* beforeunload: saveToStorage() (setItem may throw); the page and its timers
\* are gone, and the next page starts from the constructors.
pageUnload ==
    /\ currentRadical # NULL
    /\ \E ok \in BOOLEAN :
          /\ localStorage' =
                IF ok THEN saveToStorage(localStorage, stats, RADICAL_LIST, radicalData,
                                         practicedRadicals, practiceCounter, now)
                ELSE localStorage
          /\ lastOp' = [op |-> "constructor", id |-> NULL, saved |-> ok]
    /\ radicalData' = [id \in CatalogIds |-> DefaultData]
    /\ lastRadical' = NULL
    /\ practicedRadicals' = {}
    /\ practiceCounter' = 0
    /\ stats' = DefaultStats
    /\ currentRadical' = NULL
    /\ isTransitioning' = FALSE
    /\ timers' = 0
    /\ UNCHANGED << RADICAL_LIST, now, CallerVars, steps >>

NextApp ==
    \/ PracticeAppInit
    \/ \E input \in InputKeys : checkAnswerIgnored(input)
    \/ \E input \in InputKeys : checkAnswerCorrect(input)
    \/ \E input \in InputKeys : checkAnswerWrong(input)
    \/ showNextRadicalTimer
    \/ handleReset
    \/ pageHidden
    \/ pageUnload

SpecApp == InitApp /\ [][NextApp]_vars

\* ====================================================== claims, under Spec
Item(id) == radicalData[id]

LowWeight == (3 * Scale) \div 10

HighWeight == 5 * Scale

\* C1: two consecutive calls of getNextRadical never return the same item id
\* when the catalog has more than one item: a draw made while lastRadical
\* holds the previous draw's item returns another item.
C1_NoImmediateRepeat ==
    [][(lastOp'.op = "getNextRadical" /\ Len(RADICAL_LIST) > 1 /\ lastRadical # NULL)
          => lastRadical' # lastRadical]_vars

\* C2: handleWrong(id) on a catalog id sets mastery to 0, weight to
\* min(5.0, weight + 1.5), strictly more than before when the weight was below
\* 5.0, lastPracticed to practiceCounter, adds 1 to wrongCount and keeps
\* correctCount.
C2_HandleWrong ==
    [][\A id \in CatalogIds :
          (lastOp'.op = "handleWrong" /\ lastOp'.id = id) =>
             /\ radicalData'[id].mastery = 0
             /\ radicalData'[id].weight =
                   IF radicalData[id].weight + (15 * Scale) \div 10 > HighWeight
                   THEN HighWeight
                   ELSE radicalData[id].weight + (15 * Scale) \div 10
             /\ radicalData[id].weight < HighWeight =>
                   radicalData'[id].weight > radicalData[id].weight
             /\ radicalData'[id].lastPracticed = practiceCounter'
             /\ practiceCounter' = practiceCounter
             /\ radicalData'[id].wrongCount = radicalData[id].wrongCount + 1
             /\ radicalData'[id].correctCount = radicalData[id].correctCount]_vars

\* C2 witness: a wrong answer was recorded on an item whose weight is at the cap.
C2_Witness ==
    /\ lastOp.op = "handleWrong"
    /\ lastOp.id \in CatalogIds
    /\ Item(lastOp.id).weight = HighWeight
    /\ Item(lastOp.id).wrongCount > 3
    /\ Item(lastOp.id).mastery = 0

\* C3: handleCorrect(id) on a catalog id sets mastery to min(5, mastery + 1),
\* weight to max(0.3, weight * 0.7), strictly less than before when the weight
\* was above 0.3, lastPracticed to practiceCounter, adds 1 to correctCount and
\* keeps wrongCount.
C3_HandleCorrect ==
    [][\A id \in CatalogIds :
          (lastOp'.op = "handleCorrect" /\ lastOp'.id = id) =>
             /\ radicalData'[id].mastery =
                   IF radicalData[id].mastery + 1 > 5 THEN 5
                   ELSE radicalData[id].mastery + 1
             /\ 10 * radicalData'[id].weight =
                   IF 7 * radicalData[id].weight < 10 * LowWeight
                   THEN 10 * LowWeight
                   ELSE 7 * radicalData[id].weight
             /\ radicalData[id].weight > LowWeight =>
                   radicalData'[id].weight < radicalData[id].weight
             /\ radicalData'[id].lastPracticed = practiceCounter'
             /\ practiceCounter' = practiceCounter
             /\ radicalData'[id].correctCount = radicalData[id].correctCount + 1
             /\ radicalData'[id].wrongCount = radicalData[id].wrongCount]_vars

\* C3 witness: a correct answer was recorded on an item that is at the cap of
\* mastery and at the floor of weight.
C3_Witness ==
    /\ lastOp.op = "handleCorrect"
    /\ lastOp.id \in CatalogIds
    /\ Item(lastOp.id).mastery = 5
    /\ Item(lastOp.id).weight = LowWeight
    /\ Item(lastOp.id).correctCount > 6

\* C4 as stated: after RadicalManager.handleCorrect(id) on a catalog id, the
\* id is in the seen set.
C4_EngineCorrectMarksSeen ==
    (lastOp.op = "handleCorrect" /\ lastOp.id \in CatalogIds)
       => lastOp.id \in practicedRadicals

\* C4, amended: RadicalManager.handleCorrect(id) leaves the seen set as it
\* is; the id is added by markPracticed(id), which PracticeApp.handleCorrect
\* calls before decreaseWeight(id): after a correct answer recorded through
\* PracticeApp.handleCorrect the seen set is the old one plus the id, and the
\* item's correctCount is one more than before.
C4_AppCorrectMarksSeen ==
    [][/\ lastOp'.op = "handleCorrect" => practicedRadicals' = practicedRadicals
       /\ lastOp'.op = "PracticeApp.handleCorrect" =>
             /\ practicedRadicals' = practicedRadicals \cup {lastOp'.id}
             /\ radicalData'[lastOp'.id].correctCount =
                   radicalData[lastOp'.id].correctCount + 1]_vars

\* C4 witness: a correct answer recorded through PracticeApp.handleCorrect for
\* an item never answered before; the item is the one member of the seen set.
C4_Witness ==
    /\ lastOp.op = "PracticeApp.handleCorrect"
    /\ Item(lastOp.id).correctCount = 1
    /\ practicedRadicals = {lastOp.id}

C6_Reset ==
    lastOp.op = "resetWeights" =>
       /\ \A id \in CatalogIds :
             /\ Item(id).mastery = 0
             /\ Item(id).weight = Scale
             /\ Item(id).lastPracticed = 0
             /\ Item(id).wrongCount = 0
             /\ Item(id).correctCount = 0
       /\ practicedRadicals = {}
       /\ lastRadical = NULL
       /\ practiceCounter = 0

\* C6 witness: resetWeights() was called after the run's draws and answers.
C6_Witness == lastOp.op = "resetWeights" /\ steps = MaxSteps

\* C7: the size of the seen set never decreases across a recorded correct
\* answer and never exceeds the catalog size, and isAllPracticed() is true
\* only when every catalog item is in the seen set.
C7_SeenSetBounded ==
    [][/\ lastOp'.op \in { "handleCorrect", "PracticeApp.handleCorrect" } =>
             Cardinality(practicedRadicals') >= Cardinality(practicedRadicals)
       /\ Cardinality(practicedRadicals') <= TOTAL_RADICALS
       /\ isAllPracticed' => CatalogIds \subseteq practicedRadicals']_vars

\* The stored entry of id in a weights object: <<>> or <<value>>.
StoredValue(weights, id) ==
    LET hits == SelectSeq(weights, LAMBDA e : e[1] = id)
    IN  IF hits = <<>> THEN <<>> ELSE << hits[Len(hits)][2] >>

\* C9: restoreWeights of a legacy flat map sets the weight of each listed
\* catalog item to the stored number, the item's other fields and every field
\* of every unlisted item staying at their defaults; a new-format map
\* overwrites exactly the stored fields of the listed items.
C9_RestoreWeights ==
    lastOp.op = "restoreWeights" =>
       \A id \in CatalogIds :
             LET stored == StoredValue(given.weights, id)
             IN  IF stored = <<>>
                 THEN Item(id) = [weight |-> Scale, mastery |-> 0, lastPracticed |-> 0,
                                  wrongCount |-> 0, correctCount |-> 0]
                 ELSE IF stored[1].type = "number"
                 THEN Item(id) = [weight |-> stored[1].num, mastery |-> 0,
                                  lastPracticed |-> 0, wrongCount |-> 0,
                                  correctCount |-> 0]
                 ELSE /\ DOMAIN Item(id) =
                            { "weight", "mastery", "lastPracticed", "wrongCount",
                              "correctCount" }
                      /\ \A f \in DOMAIN Item(id) :
                            Item(id)[f] = IF f \in DOMAIN stored[1].obj
                                          THEN stored[1].obj[f]
                                          ELSE IF f = "weight" THEN Scale ELSE 0

\* C9 witness: a legacy map that lists the first catalog item with weight 3
\* and a stale id was restored.
C9_Witness ==
    /\ lastOp.op = "restoreWeights"
    /\ given.weights = LegacyWeights
    /\ Item(RADICAL_LIST[1].id).weight = 3 * Scale
    /\ Item(RADICAL_LIST[1].id).mastery = 0

\* C10: handleCorrect or handleWrong with an id that is not in the catalog
\* leaves every ItemState, the seen set, practiceCounter and lastRadical
\* unchanged.
C10_UnknownIdNoOp ==
    [][(lastOp'.op \in { "handleCorrect", "handleWrong" } /\ lastOp'.id \notin CatalogIds)
          => /\ radicalData' = radicalData
             /\ practicedRadicals' = practicedRadicals
             /\ practiceCounter' = practiceCounter
             /\ lastRadical' = lastRadical]_vars

\* C10 witness: an answer for the stale id was recorded after a draw and a
\* recorded answer.
C10_Witness ==
    /\ lastOp.op \in { "handleCorrect", "handleWrong" }
    /\ lastOp.id = StaleId
    /\ lastRadical # NULL
    /\ steps = MaxSteps

\* C11: every call of getNextRadical returns an item of the catalog, never
\* null: after a draw lastRadical is the id of a catalog item, and in every
\* state lastRadical is null (no draw yet) or the id of a catalog item.
C11_DrawReturnsCatalogItem ==
    /\ lastRadical \in CatalogIds \cup { NULL }
    /\ lastOp.op = "getNextRadical" =>
          (lastRadical \in CatalogIds /\ lastOp.id = lastRadical)

\* C11 witness: the second draw in a row, from a catalog of one item, where
\* the selected item is the previous one and there is no second candidate.
C11_Witness ==
    /\ lastOp.op = "getNextRadical"
    /\ practiceCounter = 2
    /\ TOTAL_RADICALS = 1
    /\ lastRadical = RADICAL_LIST[1].id

\* -------------------------------------------------------------- load steps
\* JSON values of a type no field of the document has at its top level.
MalformedValues ==
    { NumberText(5), [t |-> "string", s |-> "ab"], [t |-> "null"],
      [t |-> "array", items |-> << NumberText(7) >>] }

\* What an item can hold for a field: nothing, a value of the field's type,
\* or a malformed one (for stats: one whose spread the model computes).
StoredFieldTexts(name) ==
    { <<>> } \cup
    CASE name = "stats" ->
            { << ObjectText(SessionStats, StatsFields) >> } \cup
            { << v >> : v \in { w \in MalformedValues : w.t # "string" } }
      [] name = "weights" ->
            { << WeightsText(w) >> : w \in { LegacyWeights, NewWeights } } \cup
            { << v >> : v \in MalformedValues }
      [] name = "practicedRadicals" ->
            { << FieldText(name, << RADICAL_LIST_ALL[1].id >>) >> } \cup
            { << v >> : v \in MalformedValues }

\* The member of an object text for a field, if the item holds one.
MemberText(name, held) == IF held = <<>> THEN <<>> ELSE << << name, held[1] >> >>

\* The items localStorage can hold: none, an empty one, a text that is no
\* JSON, a JSON value that is no object, and objects whose stats, weights and
\* practicedRadicals are each missing, well-formed or malformed.
StoredItems ==
    { <<>>, << [t |-> "empty"] >>, << [t |-> "invalid"] >> } \cup
    { << v >> : v \in MalformedValues } \cup
    { << [t |-> "object",
          members |-> MemberText("stats", a) \o MemberText("weights", b)
                      \o MemberText("practicedRadicals", c)
                      \o << << "lastPracticeTime", FieldText("lastPracticeTime", NULL) >>,
                            << "version", NumberText(1) >> >>] >> :
        a \in StoredFieldTexts("stats"), b \in StoredFieldTexts("weights"),
        c \in StoredFieldTexts("practicedRadicals") }

InitLoad ==
    /\ \E list \in Catalogs : FreshEngine(list)
    /\ localStorage \in StoredItems
    /\ now = 1
    /\ Unloaded

NextLoad ==
    \/ StorageLoad
    \/ PracticeAppInit

SpecLoad == InitLoad /\ [][NextLoad]_vars

C17_WrongThenCorrect ==
    [][/\ (lastOp'.op = "getNextRadical" /\ TOTAL_RADICALS = 1) =>
             lastRadical' = RADICAL_LIST[1].id
       /\ (/\ lastOp.op = "handleWrong"
           /\ lastOp.id \in CatalogIds
           /\ lastOp'.op \in { "handleCorrect", "PracticeApp.handleCorrect" }
           /\ lastOp'.id = lastOp.id) =>
             /\ radicalData'[lastOp.id].mastery = 1
             /\ radicalData'[lastOp.id].wrongCount = radicalData[lastOp.id].wrongCount
             /\ radicalData[lastOp.id] = WrongData(DefaultData, practiceCounter) =>
                   /\ radicalData'[lastOp.id].correctCount = 1
                   /\ radicalData'[lastOp.id].wrongCount = 1]_vars

\* C17 witness: the one item of a one-item catalog, restored with a streak of
\* 5 and 6 correct answers, was answered wrong and then correctly.
C17_Witness ==
    /\ TOTAL_RADICALS = 1
    /\ lastOp.op = "handleCorrect"
    /\ lastOp.id = RADICAL_LIST[1].id
    /\ steps = 2
    /\ Item(lastOp.id).mastery = 1
    /\ Item(lastOp.id).wrongCount = 1
    /\ Item(lastOp.id).correctCount = 7

\* C19: after restoreWeights the key set of radicalData is exactly the set of
\* catalog ids (stored ids that are not in the catalog are ignored), and
\* every catalog id absent from the stored weights keeps its default
\* ItemState.
C19_RestoreKeepsKeySet ==
    lastOp.op = "restoreWeights" =>
       /\ DOMAIN radicalData = CatalogIds
       /\ \A id \in CatalogIds :
             StoredValue(given.weights, id) = <<>> => Item(id) = DefaultData

\* C22: a draw adds exactly 1 to practiceCounter, sets lastRadical to the item
\* it returns and leaves every ItemState and the seen set as they are;
\* handleCorrect and handleWrong leave practiceCounter and lastRadical as
\* they are.
C22_DrawFrame ==
    [][/\ lastOp'.op = "getNextRadical" =>
             /\ practiceCounter' = practiceCounter + 1
             /\ lastRadical' = lastOp'.id
             /\ lastRadical' \in CatalogIds
             /\ radicalData' = radicalData
             /\ practicedRadicals' = practicedRadicals
       /\ lastOp'.op \in { "handleCorrect", "handleWrong", "PracticeApp.handleCorrect" } =>
             /\ practiceCounter' = practiceCounter
             /\ lastRadical' = lastRadical]_vars

\* C22 witness: the first draw, made after a wrong answer was recorded; the
\* item's count is still there and the counter is 1.
C22_Witness ==
    /\ lastOp.op = "getNextRadical"
    /\ practiceCounter = 1
    /\ \E id \in CatalogIds : Item(id).wrongCount = 1 /\ Item(id).mastery = 0

\* -------------------------------------------------------------- draw steps
\* Draws from catalogs below and above the number of top candidates, with
\* Math.random() of the weighted choice fine enough to reach each of them.
DrawCatalogs ==
    { SubSeq(RADICAL_LIST_ALL, 1, n) : n \in { NumRadicals, TopCandidates + 1 } }

DrawRandomSteps == TopCandidates + 1

InitDraw ==
    /\ \E list \in DrawCatalogs : FreshEngine(list)
    /\ localStorage = <<>>
    /\ now = 1
    /\ Unloaded

\* The number of catalog items whose priority in this draw is above that of
\* the item with this id.
HigherPriority(list, priority, id) ==
    LET index == CHOOSE i \in 1 .. Len(list) : list[i].id = id
    IN  Cardinality({ j \in 1 .. Len(list) : priority[j] > priority[index] })

\* What getNextRadical can return, over the values of Math.random(): the id
\* of the item and the number of items with a higher priority in that draw.
RankedDraws(list, data, practiced, counter, last) ==
    { LET d == Draw(list, data, practiced, counter, last, jit, rnd, DrawRandomSteps)
      IN  [id |-> d.id, higher |-> HigherPriority(list, d.priority, d.id)] :
        jit \in [1 .. Len(list) -> MathRandomJitter], rnd \in 0 .. DrawRandomSteps - 1 }

\* getNextRadical(), called as PracticeApp calls it: first in init(), then
\* after each correct answer.
getNextRadicalRanked ==
    /\ lastOp.op \in { "constructor", "PracticeApp.handleCorrect" }
    /\ steps < MaxSteps
    /\ steps' = steps + 1
    /\ practiceCounter' = practiceCounter + 1
    /\ \E d \in RankedDraws(RADICAL_LIST, radicalData, practicedRadicals,
                             practiceCounter + 1, lastRadical) :
          /\ lastRadical' = d.id
          /\ lastOp' = [op |-> "getNextRadical", id |-> d.id, higher |-> d.higher]
    /\ UNCHANGED << RADICAL_LIST, radicalData, practicedRadicals,
                    StorageVars, AppVars, CallerVars >>

\* The engine calls of PracticeApp.handleCorrect() for the current item, the
\* one drawn last.
answerCorrect ==
    /\ lastOp.op \in { "getNextRadical", "handleWrong" }
    /\ practicedRadicals' = markPracticedSet(practicedRadicals, lastRadical)
    /\ radicalData' = handleCorrectData(radicalData, lastRadical, practiceCounter)
    /\ lastOp' = [op |-> "PracticeApp.handleCorrect", id |-> lastRadical]
    /\ UNCHANGED << RADICAL_LIST, lastRadical, practiceCounter, steps,
                    StorageVars, AppVars, CallerVars >>

\* The engine call of PracticeApp.handleWrong() for the current item; the
\* runs of the model answer wrong once at most before the correct answer.
answerWrong ==
    /\ lastOp.op = "getNextRadical"
    /\ radicalData' = handleWrongData(radicalData, lastRadical, practiceCounter)
    /\ lastOp' = [op |-> "handleWrong", id |-> lastRadical]
    /\ UNCHANGED << RADICAL_LIST, lastRadical, practicedRadicals, practiceCounter,
                    steps, StorageVars, AppVars, CallerVars >>

NextDraw ==
    \/ getNextRadicalRanked
    \/ answerCorrect
    \/ answerWrong

SpecDraw == InitDraw /\ [][NextDraw]_vars

\* ================================================= claims, under SpecDraw
\* C20: the item getNextRadical returns, the anti-repeat substitution
\* included, is one of the min(5, catalog size) items with the highest
\* priorities computed for that draw: fewer than min(5, catalog size) items
\* have a priority above its own.
C20_ReturnsTopCandidate ==
    lastOp.op = "getNextRadical" =>
       /\ lastOp.id = lastRadical
       /\ lastRadical \in CatalogIds
       /\ lastOp.higher < Min(TopCandidates, TOTAL_RADICALS)

\* C20 witness: a draw from a catalog of more than five items returned the
\* last of the top candidates, an item with four priorities above its own,
\* after an earlier draw and answer.
C20_Witness ==
    /\ lastOp.op = "getNextRadical"
    /\ TOTAL_RADICALS > TopCandidates
    /\ lastOp.higher = TopCandidates - 1
    /\ practiceCounter = 2

\* The cap of the interval term of calculatePriority.
MaxIntervalBonus == 20

\* ItemStates at the ends of the ranges of weight and mastery, last practiced
\* never or at draw 1.
ExtremeData ==
    { [weight |-> w, mastery |-> m, lastPracticed |-> t, wrongCount |-> 0,
       correctCount |-> 0] :
        w \in { (3 * Scale) \div 10, Scale, 5 * Scale }, m \in 0 .. 5, t \in 0 .. 1 }

\* Whether an item outside the seen set outranks an item inside it whatever
\* their ItemStates within the ranges, at the first draw and at a draw late
\* enough for the interval term to be at its cap.
UnseenOutranksSeen ==
    \A du \in ExtremeData, ds \in ExtremeData,
       c \in { 1, MaxIntervalBonus + 2 ^ 5 + 1 },
       ju \in MathRandomJitter, js \in MathRandomJitter :
       calculatePriority(du, FALSE, c, ju) > calculatePriority(ds, TRUE, c, js)

\* C21: for every value of the random term, the priority of an item that is
\* not in the seen set is above the priority of every item that is in it, in
\* the draw the state allows next and for ItemStates at the ends of their
\* ranges after any number of draws; and a draw made while at least
\* min(5, catalog size) items are not in the seen set returns one of them.
C21_UnseenFirst ==
    [][/\ \A u \in CatalogIds \ practicedRadicals, s \in CatalogIds \cap practicedRadicals,
             ju \in MathRandomJitter, js \in MathRandomJitter :
             calculatePriority(radicalData[u], FALSE, practiceCounter + 1, ju)
                > calculatePriority(radicalData[s], TRUE, practiceCounter + 1, js)
       /\ UnseenOutranksSeen
       /\ (/\ lastOp'.op = "getNextRadical"
           /\ Cardinality(CatalogIds \ practicedRadicals)
                 >= Min(TopCandidates, TOTAL_RADICALS)) =>
             lastRadical' \in CatalogIds \ practicedRadicals]_vars

\* C21 witness: the second draw from a catalog of six items, five of them
\* not in the seen set, returned one of the five.
C21_Witness ==
    /\ lastOp.op = "getNextRadical"
    /\ practiceCounter = 2
    /\ Cardinality(CatalogIds \ practicedRadicals) = TopCandidates
    /\ Cardinality(practicedRadicals) = 1
    /\ lastRadical \notin practicedRadicals

\* ---------------------------------------------------------- coverage steps
\* A run of draws alone from a fresh engine over a catalog of more items than
\* there are top candidates.
CoverageCatalog == SubSeq(RADICAL_LIST_ALL, 1, TopCandidates + 1)

CoverageData == [id \in { CoverageCatalog[i].id : i \in 1 .. Len(CoverageCatalog) } |-> DefaultData]

InitCoverage ==
    /\ FreshEngine(CoverageCatalog)
    /\ localStorage = <<>>
    /\ now = 1
    /\ Unloaded

\* What getNextRadical can return from an engine on which nothing was ever
\* recorded, by the previous item.  Every lastPracticed is 0, so
\* calculatePriority does not read practiceCounter.
FreshDraws ==
    [last \in DOMAIN CoverageData \cup { NULL } |->
        NextRadicals(CoverageCatalog, CoverageData, {}, 1, last)]

\* getNextRadical() on that engine.  The model stops counting the draws at
\* MaxDraws; the draws go on.
getNextRadicalFresh ==
    /\ radicalData = CoverageData
    /\ practicedRadicals = {}
    /\ practiceCounter' = Min(practiceCounter + 1, MaxDraws)
    /\ lastRadical' \in FreshDraws[lastRadical]
    /\ lastOp' = [op |-> "getNextRadical", id |-> lastRadical']
    /\ UNCHANGED << RADICAL_LIST, radicalData, practicedRadicals,
                    StorageVars, AppVars, CallerVars, steps >>

NextCoverage == getNextRadicalFresh

\* Fair resolution of Math.random(): an outcome that is possible again and
\* again is taken.
FairDraws ==
    \A i \in 1 .. Len(CoverageCatalog) :
       SF_vars(getNextRadicalFresh /\ lastRadical' = CoverageCatalog[i].id)

SpecCoverage == InitCoverage /\ [][NextCoverage]_vars /\ FairDraws

\* ============================================= claims, under SpecCoverage
\* C18: from a fresh engine a run of draws presents every catalog item at
\* least once: under fair resolution of the random choices, every item is
\* eventually the one getNextRadical returns.
C18_EveryItemDrawn ==
    \A i \in 1 .. Len(CoverageCatalog) : <>(lastRadical = CoverageCatalog[i].id)

\* C18 witness: the item that is last in list order, which is among the five
\* top candidates only when the random term lifts it over another item, is
\* returned by a draw later than the first.
C18_Witness ==
    /\ lastOp.op = "getNextRadical"
    /\ lastRadical = CoverageCatalog[Len(CoverageCatalog)].id
    /\ practiceCounter > 1

\* ================================================= claims, under SpecApp
\* C12: a correct answer starts the transition; while isTransitioning is
\* true a submitted answer changes neither the stats nor any ItemState nor
\* the seen set (nor the current item, nor the stored document); and the
\* transition ends only with a draw (the timer's showNextRadical, a reset) or
\* with the page.
C12_TransitionGuard ==
    [][/\ (isTransitioning /\ lastOp'.op = "checkAnswer") =>
             /\ lastOp'.id = "ignored"
             /\ UNCHANGED << stats, radicalData, practicedRadicals, currentRadical,
                             isTransitioning, localStorage >>
       /\ (lastOp'.op = "checkAnswer" /\ lastOp'.id = "correct") => isTransitioning'
       /\ (isTransitioning /\ ~isTransitioning') =>
             lastOp'.op \in { "showNextRadical", "handleReset", "constructor" }]_vars

\* C12 witness: an answer was submitted and ignored during the transition
\* that follows a correct answer for the current item.
C12_Witness ==
    /\ lastOp.op = "checkAnswer"
    /\ lastOp.id = "ignored"
    /\ isTransitioning
    /\ timers > 0
    /\ currentRadical \in practicedRadicals
    /\ stats.totalAttempts = 1

\* The stored document holds these stats, ItemStates and seen set.
Stores(storage, st, rd, practiced) ==
    LET data == load(storage)
    IN  /\ data.stats = st
        /\ data.weights = getWeightsData(RADICAL_LIST, rd)
        /\ data.practicedRadicals = ArrayFrom(practiced, IdOrder)

\* C16: a wrong answer leaves the seen set, the current item, the previous-item
\* memory, the draw counter and the transition as they are (it draws nothing)
\* and counts one more wrong answer for the current item; an item that was
\* not in the seen set is not in it after the wrong answer and has a priority
\* of at least the 100 of an unseen item.
C16_WrongKeepsUnseen ==
    [][(lastOp'.op = "checkAnswer" /\ lastOp'.id = "wrong") =>
          /\ UNCHANGED << practicedRadicals, currentRadical, lastRadical,
                          practiceCounter, isTransitioning, timers >>
          /\ radicalData'[currentRadical].wrongCount =
                radicalData[currentRadical].wrongCount + 1
          /\ radicalData'[currentRadical].correctCount =
                radicalData[currentRadical].correctCount
          /\ currentRadical \notin practicedRadicals =>
                /\ currentRadical' \notin practicedRadicals'
                /\ calculatePriority(radicalData'[currentRadical'],
                                     currentRadical' \in practicedRadicals',
                                     practiceCounter', 0) >= 100 * Scale]_vars

\* C16 witness: the current item was answered wrong twice and never correctly;
\* it is not in the seen set.
C16_Witness ==
    /\ lastOp.op = "checkAnswer"
    /\ lastOp.id = "wrong"
    /\ Item(currentRadical).wrongCount = 2
    /\ Item(currentRadical).correctCount = 0
    /\ currentRadical \notin practicedRadicals
    /\ stats.wrongCount = 2

\* C14: a write that fails (save returns false) leaves the stored item as it
\* was and raises nothing: a failed save on visibilitychange changes nothing
\* in memory, a failed save after an answer leaves the answer counted, a
\* failed reset() leaves the session reset in memory.  A saveToStorage() that
\* succeeds stores the stats, weights and seen set in memory at that moment
\* (on beforeunload: those of the page that goes away).
C14_FailedWrite ==
    [][("saved" \in DOMAIN lastOp') =>
          /\ ~lastOp'.saved =>
                /\ localStorage' = localStorage
                /\ lastOp'.op = "pageHidden" =>
                      UNCHANGED << EngineVars, stats, currentRadical, isTransitioning,
                                   timers >>
                /\ lastOp'.op = "checkAnswer" =>
                      stats'.totalAttempts = stats.totalAttempts + 1
                /\ lastOp'.op = "handleReset" =>
                      (stats' = DefaultStats /\ practicedRadicals' = {})
          /\ (lastOp'.saved /\ lastOp'.op \in { "checkAnswer", "pageHidden" }) =>
                Stores(localStorage', stats', radicalData', practicedRadicals')
          /\ (lastOp'.saved /\ lastOp'.op = "constructor") =>
                Stores(localStorage', stats, radicalData, practicedRadicals)]_vars

\* C14 witness: the write after a correct answer failed; the answer is counted
\* in memory and the stored document does not hold it.
C14_Witness ==
    /\ lastOp.op = "checkAnswer"
    /\ lastOp.id = "correct"
    /\ ~lastOp.saved
    /\ stats.correctCount = load(localStorage).stats.correctCount + 1
    /\ currentRadical \in practicedRadicals

\* What restoreFromStorage() of a fresh session makes of the document that
\* saveToStorage() of this session stores now.
Reloaded ==
    restoreFromStorage(saveToStorage(localStorage, stats, RADICAL_LIST, radicalData,
                                     practicedRadicals, practiceCounter, now),
                       DefaultStats, [id \in CatalogIds |-> DefaultData], {}, 0)

\* C23: after saveToStorage in a session and restoreFromStorage in a fresh
\* one, the engine's practiceCounter is the value it had when it was saved.
C23_CounterPersisted ==
    currentRadical # NULL => Reloaded.practiceCounter = practiceCounter

\* C24: every item's lastPracticed is between 0 and practiceCounter, also in
\* the states of a session that restored what an earlier one saved, so the
\* elapsed value practiceCounter - lastPracticed is never negative.
C24_LastPracticedBounded ==
    \A id \in CatalogIds :
       /\ Item(id).lastPracticed >= 0
       /\ Item(id).lastPracticed <= practiceCounter

\* C26: no item is skipped, whatever the order of answers, timer callbacks
\* and resets: the timer's draw comes only while the transition that a
\* correct answer started is on, one draw per correct answer, and the current
\* item is replaced only after it was answered correctly, by a reset, or
\* with the page.
C26_NoItemSkipped ==
    [][/\ lastOp'.op = "showNextRadical" => isTransitioning
       /\ (currentRadical # NULL /\ currentRadical' # currentRadical) =>
             \/ isTransitioning
             \/ lastOp'.op = "handleReset"
             \/ currentRadical' = NULL]_vars

\* ------------------------------------------------------------ session steps
\* The sessions of a browser whose localStorage holds nothing at first.
InitSession ==
    /\ InitApp
    /\ localStorage = <<>>

SpecSession == InitSession /\ [][NextApp]_vars

\* ============================================== claims, under SpecSession
RECURSIVE SumOver(_, _, _)
\* The sum of one count over the ItemStates of the ids.
SumOver(rd, ids, field) ==
    IF ids = {} THEN 0
    ELSE LET id == CHOOSE x \in ids : TRUE
         IN  rd[id][field] + SumOver(rd, ids \ {id}, field)

\* C25: in a session started without stored data the stats are consistent:
\* totalAttempts = correctCount + wrongCount, currentCombo <= maxCombo,
\* currentCombo is 0 directly after a wrong answer, practicedCount is the
\* size of the seen set, and correctCount and wrongCount are the sums of the
\* items' correctCount and wrongCount.
C25_StatsConsistent ==
    /\ stats.totalAttempts = stats.correctCount + stats.wrongCount
    /\ stats.currentCombo <= stats.maxCombo
    /\ (lastOp.op = "checkAnswer" /\ lastOp.id = "wrong") => stats.currentCombo = 0
    /\ stats.practicedCount = Cardinality(practicedRadicals)
    /\ stats.correctCount = SumOver(radicalData, CatalogIds, "correctCount")
    /\ stats.wrongCount = SumOver(radicalData, CatalogIds, "wrongCount")

\* C25 witness: a wrong answer directly after a correct one and its draw; the
\* combo of 1 is over and stays the highest.
C25_Witness ==
    /\ lastOp.op = "checkAnswer" /\ lastOp.id = "wrong"
    /\ stats.correctCount = 1
    /\ stats.wrongCount = 1
    /\ stats.maxCombo = 1
    /\ stats.currentCombo = 0
    /\ stats.practicedCount = 1

\* C27 as stated: after an accepted answer whose save succeeds, and after a
\* reset whose save succeeds, the stored document's stats, weights and
\* practicedRadicals are the stats, the ItemStates and the seen set in memory.
C27_StoredEqualsMemory ==
    [][(/\ "saved" \in DOMAIN lastOp'
        /\ lastOp'.saved
        /\ lastOp'.op \in { "checkAnswer", "handleReset" }) =>
          Stores(localStorage', stats', radicalData', practicedRadicals')]_vars

\* C27, amended: after an accepted answer whose save succeeds the stored
\* document holds the stats, the ItemStates and the seen set in memory.  A
\* reset whose save succeeds stores the default document, with an empty
\* weights map in place of the ItemStates; a fresh session restores from it
\* the stats, ItemStates and seen set that the reset left in memory.
C27_SavedOnChange ==
    [][("saved" \in DOMAIN lastOp' /\ lastOp'.saved) =>
          /\ lastOp'.op = "checkAnswer" =>
                Stores(localStorage', stats', radicalData', practicedRadicals')
          /\ lastOp'.op = "handleReset" =>
                LET data == load(localStorage')
                    r == restoreFromStorage(localStorage', DefaultStats,
                                            [id \in CatalogIds |-> DefaultData], {}, 0)
                IN  /\ data.stats = DefaultStats
                    /\ data.weights = <<>>
                    /\ data.practicedRadicals = <<>>
                    /\ r.stats = stats'
                    /\ r.radicalData = radicalData'
                    /\ r.practicedRadicals = practicedRadicals']_vars

\* C27 witness: a reset whose save succeeded, after the answers of the run;
\* the stored weights map is empty and the stats in memory are the defaults.
C27_Witness ==
    /\ lastOp.op = "handleReset"
    /\ lastOp.saved
    /\ steps = MaxAnswers
    /\ load(localStorage).weights = <<>>
    /\ stats = DefaultStats
    /\ \A id \in CatalogIds : Item(id) = DefaultData

\* ================================================ claims, under SpecLoad
\* What the stored item holds for a field: nothing ("missing"), a value of
\* the field's type ("stored") or a value of another type ("malformed").
StoredField(name) ==
    IF localStorage = <<>> \/ localStorage[1].t # "object" THEN "missing"
    ELSE LET m == localStorage[1].members
             at == { i \in 1 .. Len(m) : m[i][1] = name }
         IN  IF at = {} THEN "missing"
             ELSE IF \A i \in at : WellTyped(name, m[i][2]) THEN "stored"
             ELSE "malformed"

\* C13 as stated: load() of an item that is absent, not parseable or not an
\* object returns exactly the default document; and after restoreFromStorage
\* (in init) the stats, the ItemStates and the seen set whose stored field is
\* missing or malformed are at their defaults.
C13_MalformedFallsBack ==
    /\ (lastOp.op = "load" /\ (localStorage = <<>> \/ localStorage[1].t # "object"))
          => loaded = getDefaultData
    /\ lastOp.op = "init" =>
          /\ StoredField("stats") # "stored" => stats = DefaultStats
          /\ StoredField("weights") # "stored" =>
                radicalData = [id \in CatalogIds |-> DefaultData]
          /\ StoredField("practicedRadicals") # "stored" => practicedRadicals = {}

\* ============================================= claims, under SpecStorage
\* The document a round trip starts from: the one saved, or the one exported.
RoundTripDocument == IF lastOp.id = "save" THEN given ELSE backup[1].doc

\* C8 as stated: a load that directly follows save(x), or importData of the
\* exported text of x, returns a document equal to x in every field.
C8_RoundTrip ==
    (lastOp.op = "load" /\ lastOp.id \in { "save", "importData" })
       => loaded = RoundTripDocument

\* C8, amended: the loaded document equals x in stats, weights,
\* practicedRadicals and version; its lastPracticeTime is the time of the save.
C8_RoundTripButTime ==
    (lastOp.op = "load" /\ lastOp.id \in { "save", "importData" }) =>
       /\ DOMAIN loaded = DOMAIN RoundTripDocument
       /\ loaded.stats = RoundTripDocument.stats
       /\ loaded.weights = RoundTripDocument.weights
       /\ loaded.practicedRadicals = RoundTripDocument.practicedRadicals
       /\ loaded.version = RoundTripDocument.version
       /\ loaded.lastPracticeTime = toISOString(lastOp.at)

\* C8 witness: a document with a map of ItemStates, a stale practiced id and
\* version 2 was saved, exported, imported at a later time, and loaded.
C8_Witness ==
    /\ lastOp.op = "load"
    /\ lastOp.id = "importData"
    /\ loaded.weights = NewWeights
    /\ loaded.practicedRadicals = << RADICAL_LIST_ALL[1].id, StaleId >>
    /\ loaded.stats = SessionStats
    /\ loaded.version = 2
    /\ loaded.lastPracticeTime # backup[1].doc.lastPracticeTime

====
